---- MODULE Spec2Model ----
(***************************************************************************)
(* Model of pve_exporter/collector.py: the eight Prometheus collectors of  *)
(* a Proxmox VE cluster and the scrape entry point collect_pve.            *)
(*                                                                         *)
(* Python values are tagged tuples (<<"str", s>>, <<"int", n>>,            *)
(* <<"bool", b>>); a dict is the sequence of its <<key, value>> items in   *)
(* insertion order; a metric family is a record name/labels/samples and a  *)
(* sample a record labels/value, as GaugeMetricFamily.add_metric builds    *)
(* them.                                                                   *)
(***************************************************************************)
EXTENDS Integers, Sequences, FiniteSets, TLC

\* ---------------------------------------------------------------- bounds
MaxStatus == 2      \* entries in a cluster-status response
MaxRes == 2         \* entries in a cluster-resources response
MaxFeatures == 2    \* features the detected sensor chip exposes

\* ---------------------------------------------------------- Python values
PyStr(s) == <<"str", s>>
PyInt(n) == <<"int", n>>
PyBool(b) == <<"bool", b>>

Digit(n) == <<"0", "1", "2", "3", "4", "5", "6", "7", "8", "9">>[n + 1]

RECURSIVE IntStr(_)
\* str(n) of a natural number
IntStr(n) == IF n < 10 THEN Digit(n) ELSE IntStr(n \div 10) \o Digit(n % 10)

\* str(v) as used for the label values of the info collectors
Str(v) ==
    IF v[1] = "int" THEN IntStr(v[2])
    ELSE IF v[1] = "bool" THEN (IF v[2] THEN "True" ELSE "False")
    ELSE v[2]

\* the number a sample's value denotes: bool is a subclass of int in Python
NumVal(v) == IF v[1] = "bool" THEN (IF v[2] THEN 1 ELSE 0) ELSE v[2]

\* ------------------------------------------------------------------ dicts
Has(d, k) == \E i \in DOMAIN d : d[i][1] = k
Get(d, k) == d[CHOOSE i \in DOMAIN d : d[i][1] = k][2]
GetOr(d, k, dflt) == IF Has(d, k) THEN Get(d, k) ELSE dflt
Del(d, k) == SelectSeq(d, LAMBDA item : item[1] # k)
Set(d, k, v) ==
    IF Has(d, k) THEN [i \in DOMAIN d |-> IF d[i][1] = k THEN <<k, v>> ELSE d[i]]
    ELSE Append(d, <<k, v>>)
Keys(d) == [i \in DOMAIN d |-> d[i][1]]
Values(d) == [i \in DOMAIN d |-> d[i][2]]

\* ------------------------------------------------------- metric families
Sample(labelValues, value) == [labels |-> labelValues, value |-> value]
Family(name, labelNames, samples) ==
    [name |-> name, labels |-> labelNames, samples |-> samples]

\* what a collect step does: the exception that left it ("none" when it
\* returned), the families it yielded, and the fetched entries as the step
\* left them
Outcome(fault, out, given) == [fault |-> fault, out |-> out, given |-> given]

SeqsUpTo(S, n) == UNION {[1..k -> S] : k \in 0..n}

\* ------------------------------------------------------ upstream responses
NodeA == << <<"type", PyStr("node")>>, <<"id", PyStr("node/a")>>,
            <<"online", PyInt(1)>>, <<"nodeid", PyInt(1)>>,
            <<"ip", PyStr("10.0.0.1")>> >>
NodeB == << <<"type", PyStr("node")>>, <<"id", PyStr("node/b")>>,
            <<"online", PyInt(0)>>, <<"nodeid", PyInt(12)>> >>
ClusterP == << <<"type", PyStr("cluster")>>, <<"name", PyStr("pvec")>>,
               <<"quorate", PyInt(1)>>, <<"nodes", PyInt(2)>> >>
Unknown == << <<"type", PyStr("unknown")>>, <<"id", PyStr("x")>> >>
StatusEntries == {NodeA, NodeB, ClusterP, Unknown}

Qemu == << <<"id", PyStr("qemu/100")>>, <<"type", PyStr("qemu")>>,
           <<"node", PyStr("a")>>, <<"name", PyStr("vm1")>>,
           <<"status", PyStr("running")>>, <<"mem", PyInt(1024)>>,
           <<"cpu", PyInt(1)>> >>
Lxc == << <<"maxdisk", PyInt(8)>>, <<"id", PyStr("lxc/101")>>,
          <<"type", PyStr("lxc")>>, <<"node", PyStr("b")>>,
          <<"status", PyStr("stopped")>>, <<"template", PyInt(0)>> >>
Storage == << <<"id", PyStr("storage/a/local")>>, <<"type", PyStr("storage")>>,
              <<"node", PyStr("a")>>, <<"storage", PyStr("local")>>,
              <<"disk", PyInt(5)>>, <<"maxdisk", PyInt(9)>> >>
ResourceEntries == {Qemu, Lxc, Storage}

VersionRecords ==
    { << >>,
      << <<"keyboard", PyStr("de")>> >>,
      << <<"release", PyStr("15")>>, <<"repoid", PyStr("7599e35a")>>,
         <<"version", PyStr("4.4")>> >>,
      << <<"version", PyStr("4.4")>>, <<"keyboard", PyStr("de")>>,
         <<"release", PyStr("15")>> >>,
      << <<"keyboard", PyStr("de")>>, <<"repoid", PyStr("7599e35a")>> >> }

\* cluster.resources.get(type='vm'): the API returns the guests only
VmResources(res) ==
    SelectSeq(res, LAMBDA r : Get(r, "type") \in {PyStr("qemu"), PyStr("lxc")})

\* -------------------------------------------------------- StatusCollector
StatusSample(entry) ==
    IF Get(entry, "type") = PyStr("node")
    THEN Sample(<<Get(entry, "id")>>, Get(entry, "online"))
    ELSE Sample(<<PyStr("cluster/" \o Get(entry, "name")[2])>>, Get(entry, "quorate"))

\* mutant: every listed guest is reported up
VmSample_AlwaysUp(resource) == Sample(<<Get(resource, "id")>>, PyInt(1))

VmSample(resource) ==
    Sample(<<Get(resource, "id")>>, PyBool(Get(resource, "status") = PyStr("running")))

\* mutant: an entry of another type is skipped instead of raising
StatusCollect_SkipUnknown(entries, vms) ==
    LET known == SelectSeq(entries, LAMBDA e : Get(e, "type") \in {PyStr("node"), PyStr("cluster")})
    IN  Outcome("none",
                << Family("pve_up", <<"id">>,
                          [i \in DOMAIN known |-> StatusSample(known[i])]
                          \o [i \in DOMAIN vms |-> VmSample(vms[i])]) >>,
                entries)

StatusCollect(entries, vms) ==
    IF \E i \in DOMAIN entries :
          Get(entries[i], "type") \notin {PyStr("node"), PyStr("cluster")}
    THEN Outcome("ValueError", << >>, entries)
    ELSE Outcome("none",
                 << Family("pve_up", <<"id">>,
                           [i \in DOMAIN entries |-> StatusSample(entries[i])]
                           \o [i \in DOMAIN vms |-> VmSample(vms[i])]) >>,
                 entries)

\* ------------------------------------------------------- VersionCollector
LABEL_WHITELIST == <<"release", "repoid", "version">>

\* mutant: the record is not projected onto the whitelist
VersionCollect_NoFilter(record) ==
    IF record = << >>
    THEN Outcome("ValueError", << >>, record)
    ELSE Outcome("none",
                 << Family("pve_version_info", Keys(record),
                           << Sample(Values(record), PyInt(1)) >>) >>,
                 record)

VersionCollect(record) ==
    LET version == SelectSeq(record,
                     LAMBDA item : \E j \in DOMAIN LABEL_WHITELIST :
                                      LABEL_WHITELIST[j] = item[1])
    IN  IF version = << >>
        THEN Outcome("ValueError", << >>, record)
        ELSE Outcome("none",
                     << Family("pve_version_info", Keys(version),
                               << Sample(Values(version), PyInt(1)) >>) >>,
                     record)

\* --------------------------------------------------- ClusterNodeCollector
IsType(entry, tag) == Get(entry, "type") = PyStr(tag)

\* the positions, in list order, of the entries the list comprehension keeps
Filtered(entries, tag) == SelectSeq([i \in DOMAIN entries |-> i],
                                    LAMBDA i : IsType(entries[i], tag))

\* "Remove superflous keys": the dicts of the fetched list are changed in
\* place; a node without 'online' stops the loop with KeyError
NodeStripAll(entries) ==
    LET idx == Filtered(entries, "node")
        bad == {j \in DOMAIN idx : ~Has(entries[idx[j]], "online")}
        stop == IF bad = {} THEN Len(idx) + 1
                ELSE CHOOSE j \in bad : \A k \in bad : j <= k
    IN  [fault |-> IF bad = {} THEN "none" ELSE "KeyError",
         entries |-> [i \in DOMAIN entries |->
                        IF \E j \in DOMAIN idx : idx[j] = i /\ j < stop
                        THEN Del(Del(entries[i], "type"), "online")
                        ELSE IF \E j \in DOMAIN idx : idx[j] = i /\ j = stop
                        THEN Del(entries[i], "type")
                        ELSE entries[i]]]

\* the family of an info collector: the labels are the keys of the first
\* entry, every entry must have them all (KeyError otherwise)
InfoFamily(name, entries, idx) ==
    LET labels == Keys(entries[idx[1]])
    IN  IF \E j \in DOMAIN idx : \E l \in DOMAIN labels :
              ~Has(entries[idx[j]], labels[l])
        THEN Outcome("KeyError", << >>, entries)
        ELSE Outcome("none",
                     << Family(name, labels,
                               [j \in DOMAIN idx |->
                                  Sample([l \in DOMAIN labels |->
                                            PyStr(Str(Get(entries[idx[j]], labels[l])))],
                                         PyInt(1))]) >>,
                     entries)

\* mutant: the family is yielded also when no node entry is left
ClusterNodeCollect_AlwaysYield(entries) ==
    LET idx == Filtered(entries, "node")
        stripped == NodeStripAll(entries)
    IN  IF idx = << >>
        THEN Outcome("none", << Family("pve_node_info", << >>, << >>) >>, entries)
        ELSE IF stripped.fault # "none"
        THEN Outcome(stripped.fault, << >>, stripped.entries)
        ELSE InfoFamily("pve_node_info", stripped.entries, idx)

ClusterNodeCollect(entries) ==
    LET idx == Filtered(entries, "node")
        stripped == NodeStripAll(entries)
    IN  IF idx = << >> THEN Outcome("none", << >>, entries)
        ELSE IF stripped.fault # "none"
        THEN Outcome(stripped.fault, << >>, stripped.entries)
        ELSE InfoFamily("pve_node_info", stripped.entries, idx)

\* --------------------------------------------------- ClusterInfoCollector
\* both loops of the collector: 'type' is deleted from every cluster entry,
\* then id is set to cluster/<name> and 'name' deleted, entry by entry; an
\* entry without 'name' stops the second loop with KeyError
ClusterStripAll(entries) ==
    LET idx == Filtered(entries, "cluster")
        bad == {j \in DOMAIN idx : ~Has(entries[idx[j]], "name")}
        stop == IF bad = {} THEN Len(idx) + 1
                ELSE CHOOSE j \in bad : \A k \in bad : j <= k
    IN  [fault |-> IF bad = {} THEN "none" ELSE "KeyError",
         entries |-> [i \in DOMAIN entries |->
                        IF \E j \in DOMAIN idx : idx[j] = i /\ j < stop
                        THEN Del(Set(Del(entries[i], "type"), "id",
                                     PyStr("cluster/" \o Get(entries[i], "name")[2])),
                                 "name")
                        ELSE IF \E j \in DOMAIN idx : idx[j] = i
                        THEN Del(entries[i], "type")
                        ELSE entries[i]]]

ClusterInfoCollect(entries) ==
    LET idx == Filtered(entries, "cluster")
        stripped == ClusterStripAll(entries)
    IN  IF idx = << >> THEN Outcome("none", << >>, entries)
        ELSE IF stripped.fault # "none"
        THEN Outcome(stripped.fault, << >>, stripped.entries)
        ELSE InfoFamily("pve_cluster_info", stripped.entries, idx)

\* ---------------------------------------------- ClusterResourcesCollector
\* the keys of the metrics dict with their family names, in dict order
UsageMetrics ==
    << <<"maxdisk", "pve_disk_size_bytes">>,
       <<"disk", "pve_disk_usage_bytes">>,
       <<"maxmem", "pve_memory_size_bytes">>,
       <<"mem", "pve_memory_usage_bytes">>,
       <<"netout", "pve_network_transmit_bytes">>,
       <<"netin", "pve_network_receive_bytes">>,
       <<"diskwrite", "pve_disk_write_bytes">>,
       <<"diskread", "pve_disk_read_bytes">>,
       <<"cpu", "pve_cpu_usage_ratio">>,
       <<"maxcpu", "pve_cpu_usage_limit">>,
       <<"uptime", "pve_uptime_seconds">> >>

GuestLabels == <<"id", "node", "name", "type">>
StorageLabels == <<"id", "node", "storage">>

\* mutant: a resource without the key gets a sample of value 0
UsageFamily_ZeroFilled(m, res) ==
    Family(UsageMetrics[m][2], <<"id">>,
           [i \in DOMAIN res |->
              Sample(<<Get(res[i], "id")>>, GetOr(res[i], UsageMetrics[m][1], PyInt(0)))])

\* the usage family of one key: a sample for every resource that has the key
UsageFamily(m, res) ==
    LET having == SelectSeq(res, LAMBDA r : Has(r, UsageMetrics[m][1]))
    IN  Family(UsageMetrics[m][2], <<"id">>,
               [i \in DOMAIN having |->
                  Sample(<<Get(having[i], "id")>>, Get(having[i], UsageMetrics[m][1]))])

\* an info family: a sample of value 1 for every resource of the given types
ResourceInfoFamily(name, labels, types, res) ==
    LET of == SelectSeq(res, LAMBDA r : Get(r, "type")[2] \in types)
    IN  Family(name, labels,
               [i \in DOMAIN of |->
                  Sample([l \in DOMAIN labels |-> GetOr(of[i], labels[l], PyStr(""))],
                         PyInt(1))])

\* mutant: a family without a sample is left out
ClusterResourcesCollect_NonEmptyOnly(res) ==
    Outcome("none",
            SelectSeq([m \in DOMAIN UsageMetrics |-> UsageFamily(m, res)]
                      \o << ResourceInfoFamily("pve_guest_info", GuestLabels, {"lxc", "qemu"}, res),
                            ResourceInfoFamily("pve_storage_info", StorageLabels, {"storage"}, res) >>,
                      LAMBDA f : f.samples # << >>),
            res)

ClusterResourcesCollect(res) ==
    Outcome("none",
            [m \in DOMAIN UsageMetrics |-> UsageFamily(m, res)]
            \o << ResourceInfoFamily("pve_guest_info", GuestLabels, {"lxc", "qemu"}, res),
                  ResourceInfoFamily("pve_storage_info", StorageLabels, {"storage"}, res) >>,
            res)

\* ----------------------------------------------------- LMSensorsCollector
\* the features of the detected chip, in the order the library yields them
Feature(i) == [chip |-> "coretemp-isa-0000", adapter |-> "ISA adapter",
               label |-> "Core " \o IntStr(i), value |-> 40 + i]

\* what the sensor library does during one collect: sensors.init() returns
\* or raises, and reading feature failAt raises (0: every read succeeds)
SensorRuns ==
    {[initOk |-> FALSE, failAt |-> 0]}
    \cup {[initOk |-> TRUE, failAt |-> k] : k \in 0..MaxFeatures}

LMSensorsCollect(run) ==
    LET read == IF run.failAt = 0 THEN MaxFeatures ELSE run.failAt - 1
    IN  IF ~run.initOk
        THEN Outcome("SensorsError", << >>, << >>)
        ELSE Outcome("none",
                     << Family("pve_host_sensors", <<"chip", "chip_type", "sensor">>,
                               [i \in 1..read |->
                                  Sample(<<PyStr(Feature(i).chip), PyStr(Feature(i).adapter),
                                           PyStr(Feature(i).label)>>,
                                         PyInt(Feature(i).value))]) >>,
                     << >>)

\* sensors.cleanup() is in the finally clause of the try that follows init()
SensorsCleanedUp(run) == run.initOk

\* ------------------------------------------------------- CPUFreqCollector
\* Text read from a command: <<"num", n>> is the decimal numeral of n,
\* <<"txt", s>> a text that holds no digit.
Num(n) == <<"num", n>>
Txt(s) == <<"txt", s>>
Decode(t) == IF t[1] = "num" THEN IntStr(t[2]) ELSE t[2]

\* one run of lscpu: found is FALSE when Popen finds no such command, and
\* lines are the output lines split at the colon
LscpuRuns ==
    { [found |-> FALSE, lines |-> << >>],
      [found |-> TRUE,
       lines |-> << <<"Architecture", Txt("x86_64")>>, <<"CPU MHz", Num(2400)>>,
                    <<"CPU max MHz", Num(3600)>>, <<"CPU min MHz", Num(800)>> >>],
      [found |-> TRUE,
       lines |-> << <<"Architecture", Txt("x86_64")>>, <<"CPU MHz", Num(2400)>> >>],
      [found |-> TRUE,
       lines |-> << <<"CPU MHz", Txt("n/a")>>, <<"CPU max MHz", Num(3600)>>,
                    <<"CPU min MHz", Num(800)>> >>] }

\* the value the loop leaves in a variable: that of the last line of the field
LastOf(lines, field) ==
    LET at == {i \in DOMAIN lines : lines[i][1] = field}
    IN  lines[CHOOSE i \in at : \A j \in at : j <= i][2]

CPUFreqCollect(run) ==
    LET Present(field) == \E i \in DOMAIN run.lines : run.lines[i][1] = field
    IN  IF ~run.found
        THEN Outcome("FileNotFoundError", << >>, << >>)
        ELSE IF \E i \in DOMAIN run.lines :
                   run.lines[i][1] = "CPU MHz" /\ run.lines[i][2][1] # "num"
        THEN Outcome("ValueError", << >>, << >>)
        ELSE IF ~(Present("CPU MHz") /\ Present("CPU max MHz") /\ Present("CPU min MHz"))
        THEN Outcome("UnboundLocalError", << >>, << >>)
        ELSE Outcome("none",
                     << Family("pve_host_cpufreq", <<"max_freq", "min_freq">>,
                               << Sample(<<PyStr(Decode(LastOf(run.lines, "CPU max MHz"))),
                                           PyStr(Decode(LastOf(run.lines, "CPU min MHz")))>>,
                                         PyInt(LastOf(run.lines, "CPU MHz")[2])) >>) >>,
                     << >>)

\* ------------------------------------------------------- HDDTempCollector
\* one run of hddtemp: every non-empty output line split at the colons
HddtempRuns ==
    { [found |-> FALSE, lines |-> << >>],
      [found |-> TRUE, lines |-> << >>],
      [found |-> TRUE,
       lines |-> << <<Txt("/dev/sda"), Txt("WDC"), Num(38)>>,
                    <<Txt("/dev/sdb"), Txt("WDC"), Num(41)>> >>],
      [found |-> TRUE,
       lines |-> << <<Txt("/dev/sda"), Txt("WDC"), Num(38)>>,
                    <<Txt("/dev/sdb"), Txt("WDC"), Txt("drive is sleeping")>> >>],
      [found |-> TRUE,
       lines |-> << <<Txt("hddtemp"), Txt("command failed")>> >>] }

HDDTempCollect(run) ==
    LET Short(i) == Len(run.lines[i]) < 3
        bad == {i \in DOMAIN run.lines : Short(i) \/ run.lines[i][3][1] # "num"}
        first == CHOOSE i \in bad : \A j \in bad : i <= j
    IN  IF ~run.found
        THEN Outcome("FileNotFoundError", << >>, << >>)
        ELSE IF bad # {}
        THEN Outcome(IF Short(first) THEN "IndexError" ELSE "AttributeError", << >>, << >>)
        ELSE Outcome("none",
                     << Family("pve_host_hdd_temp", <<"device", "mode">>,
                               [i \in DOMAIN run.lines |->
                                  Sample(<<PyStr(Decode(run.lines[i][1])),
                                           PyStr(Decode(run.lines[i][2]))>>,
                                         PyInt(run.lines[i][3][2]))]) >>,
                     << >>)

\* ------------------------------------------------------------ collect_pve
\* the collectors in the order collect_pve registers them; the registry
\* calls collect of each in this order when generate_latest walks it
Registry == <<"Status", "ClusterResources", "ClusterNode", "ClusterInfo",
              "Version", "LMSensors", "CPUFreq", "HDDTemp">>

VARIABLES
    status,      \* what cluster.status.get() returns
    resources,   \* what cluster.resources.get() returns
    version,     \* what version.get() returns
    pc,          \* position in Registry of the next collector to run
    out,         \* out[i]: the families collector i yielded in this scrape
    calls,       \* the collectors whose collect ran in this scrape, in order
    result,      \* "running", "ok" (document returned) or "fault" (raised)
    error,       \* the exception that left the last collect step, or "none"
    document,    \* << >>, or <<families>> handed back by generate_latest
    fetched,     \* the responses the last collect step got, as returned
    given,       \* the same objects as that collect step left them
    sensorRun,   \* << >>, or <<run>>: the sensor library's behaviour
    lscpuRun,    \* << >>, or <<run>>: the lscpu run
    hddtempRun,  \* << >>, or <<run>>: the hddtemp run
    cleaned,     \* whether the last LMSensors collect called sensors.cleanup()
    repeated,    \* TRUE in the second scrape against the same responses
    prev         \* out, result and error of the first scrape

vars == <<status, resources, version, pc, out, calls, result, error, document,
          fetched, given, sensorRun, lscpuRun, hddtempRun, cleaned, repeated, prev>>

upstream == <<status, resources, version>>

NoOut == [i \in DOMAIN Registry |-> << >>]

Init ==
    /\ status \in SeqsUpTo(StatusEntries, MaxStatus)
    /\ resources \in SeqsUpTo(ResourceEntries, MaxRes)
    /\ version \in VersionRecords
    /\ pc = 1
    /\ out = NoOut
    /\ calls = << >>
    /\ result = "running"
    /\ error = "none"
    /\ document = << >>
    /\ fetched = << >>
    /\ given = << >>
    /\ sensorRun = << >>
    /\ lscpuRun = << >>
    /\ hddtempRun = << >>
    /\ cleaned = FALSE
    /\ repeated = FALSE
    /\ prev = [out |-> NoOut, result |-> "none", error |-> "none"]

\* the registry is about to call collect of the named collector
At(name) == result = "running" /\ pc \in DOMAIN Registry /\ Registry[pc] = name

\* mutant: the registry isolates the collectors, a fault only empties the
\* collector's output
Step_Isolating(name, r, responses, after) ==
    /\ calls' = Append(calls, name)
    /\ out' = [out EXCEPT ![pc] = r.out]
    /\ error' = r.fault
    /\ result' = "running"
    /\ pc' = pc + 1
    /\ fetched' = responses
    /\ given' = after
    /\ UNCHANGED <<status, resources, version, document, repeated, prev>>

\* one collect step as the registry sees it: the families are appended to
\* the scrape's output, or the exception leaves generate_latest and
\* collect_pve
Step(name, r, responses, after) ==
    /\ calls' = Append(calls, name)
    /\ out' = [out EXCEPT ![pc] = r.out]
    /\ error' = r.fault
    /\ result' = IF r.fault = "none" THEN "running" ELSE "fault"
    /\ pc' = IF r.fault = "none" THEN pc + 1 ELSE pc
    /\ fetched' = responses
    /\ given' = after
    /\ UNCHANGED <<upstream, document, repeated, prev>>

CollectStatus ==
    /\ At("Status")
    /\ LET r == StatusCollect(status, VmResources(resources))
       IN  Step("Status", r, <<status, VmResources(resources)>>,
                <<r.given, VmResources(resources)>>)
    /\ UNCHANGED <<sensorRun, lscpuRun, hddtempRun, cleaned>>

CollectClusterResources ==
    /\ At("ClusterResources")
    /\ LET r == ClusterResourcesCollect(resources)
       IN  Step("ClusterResources", r, <<resources>>, <<r.given>>)
    /\ UNCHANGED <<sensorRun, lscpuRun, hddtempRun, cleaned>>

CollectClusterNode ==
    /\ At("ClusterNode")
    /\ LET r == ClusterNodeCollect(status)
       IN  Step("ClusterNode", r, <<status>>, <<r.given>>)
    /\ UNCHANGED <<sensorRun, lscpuRun, hddtempRun, cleaned>>

CollectClusterInfo ==
    /\ At("ClusterInfo")
    /\ LET r == ClusterInfoCollect(status)
       IN  Step("ClusterInfo", r, <<status>>, <<r.given>>)
    /\ UNCHANGED <<sensorRun, lscpuRun, hddtempRun, cleaned>>

CollectVersion ==
    /\ At("Version")
    /\ LET r == VersionCollect(version)
       IN  Step("Version", r, <<version>>, <<r.given>>)
    /\ UNCHANGED <<sensorRun, lscpuRun, hddtempRun, cleaned>>

\* In the second scrape the host behaves as it did in the first.
CollectLMSensors ==
    /\ At("LMSensors")
    /\ \E run \in SensorRuns :
          /\ repeated => sensorRun = <<run>>
          /\ sensorRun' = <<run>>
          /\ cleaned' = SensorsCleanedUp(run)
          /\ Step("LMSensors", LMSensorsCollect(run), << >>, << >>)
    /\ UNCHANGED <<lscpuRun, hddtempRun>>

CollectCPUFreq ==
    /\ At("CPUFreq")
    /\ \E run \in LscpuRuns :
          /\ repeated => lscpuRun = <<run>>
          /\ lscpuRun' = <<run>>
          /\ Step("CPUFreq", CPUFreqCollect(run), << >>, << >>)
    /\ UNCHANGED <<sensorRun, hddtempRun, cleaned>>

CollectHDDTemp ==
    /\ At("HDDTemp")
    /\ \E run \in HddtempRuns :
          /\ repeated => hddtempRun = <<run>>
          /\ hddtempRun' = <<run>>
          /\ Step("HDDTemp", HDDTempCollect(run), << >>, << >>)
    /\ UNCHANGED <<sensorRun, lscpuRun, cleaned>>

RECURSIVE Concat(_, _)
\* the families of the first n collectors, each collector's in its order
Concat(o, n) == IF n = 0 THEN << >> ELSE Concat(o, n - 1) \o o[n]

\* generate_latest has walked the whole registry and returns the document
Return ==
    /\ result = "running"
    /\ pc = Len(Registry) + 1
    /\ result' = "ok"
    /\ document' = <<Concat(out, Len(Registry))>>
    /\ UNCHANGED <<upstream, pc, out, calls, error, fetched, given,
                   sensorRun, lscpuRun, hddtempRun, cleaned, repeated, prev>>

\* collect_pve is called again while the cluster and the host answer as before
Rescrape ==
    /\ result \in {"ok", "fault"}
    /\ ~repeated
    /\ repeated' = TRUE
    /\ prev' = [out |-> out, result |-> result, error |-> error]
    /\ pc' = 1
    /\ out' = NoOut
    /\ calls' = << >>
    /\ result' = "running"
    /\ error' = "none"
    /\ document' = << >>
    /\ fetched' = << >>
    /\ given' = << >>
    /\ UNCHANGED <<upstream, sensorRun, lscpuRun, hddtempRun, cleaned>>

Next ==
    \/ CollectStatus
    \/ CollectClusterResources
    \/ CollectClusterNode
    \/ CollectClusterInfo
    \/ CollectVersion
    \/ CollectLMSensors
    \/ CollectCPUFreq
    \/ CollectHDDTemp
    \/ Return

\* one scrape
Spec == Init /\ [][Next]_vars

\* a scrape and its repetition against the same responses
NextTwice == Next \/ Rescrape

SpecTwice == Init /\ [][NextTwice]_vars

\* ------------------------------------------------------------ properties
\* the collect step of the named collector has run in this scrape
Ran(name) == \E k \in DOMAIN calls : calls[k] = name

\* what the named collector yielded in this scrape
OutOf(name) == out[CHOOSE i \in DOMAIN Registry : Registry[i] = name]

\* the named collector's step is the one the exception left
FaultIn(name) == result = "fault" /\ calls # << >> /\ calls[Len(calls)] = name

TypeIs(entry, tags) == \E i \in DOMAIN entry :
                          entry[i][1] = "type" /\ entry[i][2][2] \in tags

BadStatus == \E i \in DOMAIN status : ~TypeIs(status[i], {"node", "cluster"})

WhitelistedKeys == {version[i][1] : i \in DOMAIN version}
                   \cap {"release", "repoid", "version"}

\* C1: when every status entry is a node or a cluster, StatusCollector yields
\* the single family pve_up with one sample per status entry followed by one
\* per VM/CT resource: a node's sample has the node's id and online flag, a
\* cluster's has id cluster/<name> and the quorate flag, a resource's has the
\* resource id and the value 1 if its status is "running", else 0.
C1_StatusSamples ==
    (Ran("Status") /\ ~BadStatus) =>
        LET fams == OutOf("Status")
            vms == SelectSeq(resources, LAMBDA r : TypeIs(r, {"qemu", "lxc"}))
        IN  /\ ~FaultIn("Status")
            /\ Len(fams) = 1
            /\ fams[1].name = "pve_up"
            /\ Len(fams[1].samples) = Len(status) + Len(vms)
            /\ \A i \in DOMAIN status :
                  LET smp == fams[1].samples[i]
                  IN  IF TypeIs(status[i], {"node"})
                      THEN /\ smp.labels = <<Get(status[i], "id")>>
                           /\ smp.value = Get(status[i], "online")
                      ELSE /\ smp.labels[1][1] = "str"
                           /\ smp.labels[1][2] = "cluster/" \o Get(status[i], "name")[2]
                           /\ Len(smp.labels) = 1
                           /\ smp.value = Get(status[i], "quorate")
            /\ \A j \in DOMAIN vms :
                  LET smp == fams[1].samples[Len(status) + j]
                  IN  /\ smp.labels = <<Get(vms[j], "id")>>
                      /\ NumVal(smp.value) =
                            IF Get(vms[j], "status")[2] = "running" THEN 1 ELSE 0

\* C1 witness: StatusCollector has returned for a list with a node and a
\* cluster entry and two guests, one of them not running.
C1_Witness ==
    /\ Ran("Status") /\ ~FaultIn("Status")
    /\ \E i \in DOMAIN status : TypeIs(status[i], {"node"})
    /\ \E i \in DOMAIN status : TypeIs(status[i], {"cluster"})
    /\ Len(OutOf("Status")[1].samples) = 4
    /\ \E j \in DOMAIN resources : GetOr(resources[j], "status", PyStr(""))[2] = "stopped"
    /\ \E j \in DOMAIN resources : GetOr(resources[j], "status", PyStr(""))[2] = "running"

\* C2: a status entry of another type than node/cluster, or a version record
\* without any whitelisted key, makes the scrape raise: the collector that
\* meets it yields nothing, no later collector runs and collect_pve returns
\* no document.
C2_ContractViolationFatal ==
    /\ (BadStatus /\ Ran("Status")) =>
          FaultIn("Status") /\ OutOf("Status") = << >>
    /\ (WhitelistedKeys = {} /\ Ran("Version")) =>
          FaultIn("Version") /\ OutOf("Version") = << >>
    /\ (BadStatus \/ WhitelistedKeys = {}) =>
          result # "ok" /\ document = << >>

\* C2 witness: the scrape has raised in VersionCollector (no whitelisted key)
\* after four collectors returned.
C2_Witness ==
    /\ WhitelistedKeys = {} /\ version # << >>
    /\ FaultIn("Version")
    /\ Len(calls) = 5
    /\ status # << >>

\* C3: for a version record with a whitelisted key VersionCollector yields one
\* family with one sample of value 1; the label names are the whitelisted
\* keys present, each once, and the label values are the record's values for
\* these keys in the order of the names.
C3_VersionLabels ==
    (Ran("Version") /\ WhitelistedKeys # {}) =>
        LET fams == OutOf("Version")
        IN  /\ ~FaultIn("Version")
            /\ Len(fams) = 1
            /\ Len(fams[1].samples) = 1
            /\ NumVal(fams[1].samples[1].value) = 1
            /\ {fams[1].labels[l] : l \in DOMAIN fams[1].labels} = WhitelistedKeys
            /\ Len(fams[1].labels) = Cardinality(WhitelistedKeys)
            /\ Len(fams[1].samples[1].labels) = Len(fams[1].labels)
            /\ \A l \in DOMAIN fams[1].labels :
                  fams[1].samples[1].labels[l] = Get(version, fams[1].labels[l])

\* C3 witness: VersionCollector has returned for a record that has a key
\* outside the whitelist between two whitelisted ones.
C3_Witness ==
    /\ Ran("Version") /\ ~FaultIn("Version")
    /\ Len(version) = 3
    /\ version[2][1] = "keyboard"
    /\ OutOf("Version")[1].labels = <<"version", "release">>

\* the usage keys the collector recognizes, and the family of each
UsageFamilyOf(fams, key) ==
    LET name == CASE key = "maxdisk" -> "pve_disk_size_bytes"
                  [] key = "disk" -> "pve_disk_usage_bytes"
                  [] key = "maxmem" -> "pve_memory_size_bytes"
                  [] key = "mem" -> "pve_memory_usage_bytes"
                  [] key = "netout" -> "pve_network_transmit_bytes"
                  [] key = "netin" -> "pve_network_receive_bytes"
                  [] key = "diskwrite" -> "pve_disk_write_bytes"
                  [] key = "diskread" -> "pve_disk_read_bytes"
                  [] key = "cpu" -> "pve_cpu_usage_ratio"
                  [] key = "maxcpu" -> "pve_cpu_usage_limit"
                  [] key = "uptime" -> "pve_uptime_seconds"
    IN  fams[CHOOSE i \in DOMAIN fams : fams[i].name = name]

RecognizedKeys == {"maxdisk", "disk", "maxmem", "mem", "netout", "netin",
                   "diskwrite", "diskread", "cpu", "maxcpu", "uptime"}

\* the families labelled by id alone are the usage families
UsageFamilies(fams) == {i \in DOMAIN fams : fams[i].labels = <<"id">>}

\* C4: ClusterResourcesCollector puts a sample (the resource's id, the
\* resource's value for the key) into the usage family of a key exactly for
\* the resources that have the key, in list order; a resource without the key
\* adds nothing to that family, and a key that is not recognized adds a sample
\* to no usage family.
C4_UsageSamples ==
    Ran("ClusterResources") =>
        LET fams == OutOf("ClusterResources")
        IN  /\ \A key \in RecognizedKeys :
                  LET having == SelectSeq(resources, LAMBDA r : Has(r, key))
                      smps == UsageFamilyOf(fams, key).samples
                  IN  /\ Len(smps) = Len(having)
                      /\ \A i \in DOMAIN having :
                            /\ smps[i].labels = <<Get(having[i], "id")>>
                            /\ smps[i].value = Get(having[i], key)
            /\ \A i \in UsageFamilies(fams) :
                  \E key \in RecognizedKeys : fams[i] = UsageFamilyOf(fams, key)

\* C4 witness: the collector has run on a list of two resources where one
\* has usage keys the other lacks and one has a key that is not recognized.
C4_Witness ==
    /\ Ran("ClusterResources")
    /\ Len(resources) = 2
    /\ Has(resources[1], "mem") /\ ~Has(resources[2], "mem")
    /\ Has(resources[2], "template") /\ Has(resources[2], "maxdisk")
    /\ Len(UsageFamilyOf(OutOf("ClusterResources"), "mem").samples) = 1
    /\ Len(UsageFamilyOf(OutOf("ClusterResources"), "maxdisk").samples) = 1

\* C5 (as claimed): the output of ClusterResourcesCollector is exactly 10 usage
\* families and 2 info families, 12 in all.
C5_TwelveFamilies ==
    Ran("ClusterResources") =>
        /\ Len(OutOf("ClusterResources")) = 12
        /\ Cardinality(UsageFamilies(OutOf("ClusterResources"))) = 10

\* C5 (amended): for every resource list, the empty one included, the output
\* of ClusterResourcesCollector is exactly 11 usage families, one per
\* recognized key, and the 2 info families, 13 in all with distinct names,
\* each present even when it holds no sample.
C5_ThirteenFamilies ==
    Ran("ClusterResources") =>
        LET fams == OutOf("ClusterResources")
        IN  /\ ~FaultIn("ClusterResources")
            /\ Len(fams) = 13
            /\ Cardinality(UsageFamilies(fams)) = 11
            /\ Cardinality({fams[i].name : i \in DOMAIN fams}) = 13
            /\ {fams[i].name : i \in DOMAIN fams \ UsageFamilies(fams)}
                  = {"pve_guest_info", "pve_storage_info"}

\* C5 witness: the collector has run on the empty resource list and every one
\* of its families is there without a sample.
C5_Witness ==
    /\ Ran("ClusterResources")
    /\ resources = << >>
    /\ OutOf("ClusterResources") # << >>
    /\ \A i \in DOMAIN OutOf("ClusterResources") :
          OutOf("ClusterResources")[i].samples = << >>

\* the status entries of one type, in list order
OfType(tag) == SelectSeq(status, LAMBDA e : TypeIs(e, {tag}))

\* every entry has the key the collector deletes and every key of the first
Homogeneous(entries, key) ==
    \A i \in DOMAIN entries :
       /\ Has(entries[i], key)
       /\ \A l \in DOMAIN entries[1] : Has(entries[i], entries[1][l][1])

\* exactly one family, with one sample of value 1 per entry
OneFamilyOfOnes(fams, n) ==
    /\ Len(fams) = 1
    /\ Len(fams[1].samples) = n
    /\ \A i \in DOMAIN fams[1].samples : NumVal(fams[1].samples[i].value) = 1

SensorsFailed == sensorRun # << >> /\ (~sensorRun[1].initOk \/ sensorRun[1].failAt > 0)

\* the samples of the features read before the failure
SensorSamplesBefore(run) ==
    [i \in 1..(IF run.failAt = 0 THEN MaxFeatures ELSE run.failAt - 1) |->
       Sample(<<PyStr(Feature(i).chip), PyStr(Feature(i).adapter), PyStr(Feature(i).label)>>,
              PyInt(Feature(i).value))]

\* C7: when the sensor probe fails (the library or a resource is not
\* available, or a chip or feature read fails), LMSensorsCollector does not
\* raise: it yields pve_host_sensors with the samples added before the
\* failure, the library is cleaned up, and the scrape does not fail.
C7_SensorFailureIsolated ==
    (Ran("LMSensors") /\ SensorsFailed) =>
        /\ ~FaultIn("LMSensors")
        /\ Len(OutOf("LMSensors")) = 1
        /\ OutOf("LMSensors")[1].name = "pve_host_sensors"
        /\ OutOf("LMSensors")[1].samples = SensorSamplesBefore(sensorRun[1])
        /\ cleaned
        /\ result # "fault"

\* the CPU-frequency probe of this scrape failed: no lscpu, a field missing,
\* or a frequency that is no number
LscpuFailed ==
    /\ lscpuRun # << >>
    /\ \/ ~lscpuRun[1].found
       \/ \E f \in {"CPU MHz", "CPU max MHz", "CPU min MHz"} :
             \A i \in DOMAIN lscpuRun[1].lines : lscpuRun[1].lines[i][1] # f
       \/ \E i \in DOMAIN lscpuRun[1].lines :
             lscpuRun[1].lines[i][1] = "CPU MHz" /\ lscpuRun[1].lines[i][2][1] # "num"

\* the disk-temperature probe of this scrape failed: no hddtemp, or a line
\* without three fields or without a number in the third
HddtempFailed ==
    /\ hddtempRun # << >>
    /\ \/ ~hddtempRun[1].found
       \/ \E i \in DOMAIN hddtempRun[1].lines :
             \/ Len(hddtempRun[1].lines[i]) < 3
             \/ hddtempRun[1].lines[i][3][1] # "num"

\* C8: a failure of the CPU-frequency probe or of the disk-temperature probe
\* stays in the probe: its collect step raises nothing and yields its family,
\* empty or partial, and the scrape does not fail.
C8_ProbeFailureIsolated ==
    /\ (Ran("CPUFreq") /\ LscpuFailed) =>
          /\ ~FaultIn("CPUFreq")
          /\ Len(OutOf("CPUFreq")) = 1
          /\ OutOf("CPUFreq")[1].name = "pve_host_cpufreq"
    /\ (Ran("HDDTemp") /\ HddtempFailed) =>
          /\ ~FaultIn("HDDTemp")
          /\ Len(OutOf("HDDTemp")) = 1
          /\ OutOf("HDDTemp")[1].name = "pve_host_hdd_temp"
    /\ (LscpuFailed \/ HddtempFailed) => result # "fault"

\* the collectors in the order the claim names them
Order == <<"Status", "ClusterResources", "ClusterNode", "ClusterInfo",
           "Version", "LMSensors", "CPUFreq", "HDDTemp">>

\* C9: in a scrape the collect steps run once each in registration order;
\* when all have returned, the document holds the families of every collector,
\* collector after collector in registration order and each collector's in
\* the order it yielded them; a fault of a collector ends the scrape there:
\* no later collector runs and no document comes back.
C9_OnceInOrder ==
    /\ Len(calls) <= Len(Order)
    /\ \A k \in DOMAIN calls : calls[k] = Order[k]
    /\ error # "none" => result = "fault"
    /\ result = "ok" =>
          /\ calls = Order
          /\ document = << out[1] \o out[2] \o out[3] \o out[4]
                           \o out[5] \o out[6] \o out[7] \o out[8] >>
    /\ result = "fault" =>
          /\ calls # << >>
          /\ document = << >>
          /\ \A i \in DOMAIN Order : i >= Len(calls) => out[i] = << >>
    /\ result = "running" => document = << >>

\* C9 witness: a scrape has returned its document after all eight collectors
\* ran, with the node and the cluster family in it.
C9_Witness ==
    /\ result = "ok"
    /\ Len(calls) = 8
    /\ Len(document[1]) = 20

\* the repeated scrape yields, collector by collector, what the first one
\* yielded, and ends as the first one did
SameAsFirstScrape ==
    repeated =>
       /\ \A i \in DOMAIN calls : out[i] = prev.out[i]
       /\ result # "running" => result = prev.result /\ error = prev.error

\* C10: a scrape repeated against the same responses yields what the first
\* one yielded (nothing accumulates, the order does not drift), and no collect
\* step changes the entries it fetched.
C10_IdempotentNoMutation == SameAsFirstScrape /\ given = fetched

====
